---- MODULE Spec2Model ----
(***************************************************************************)
(* Visonic alarm control panel entity                                      *)
(* (custom_components/visonicalarm/alarm_control_panel.py).                *)
(*                                                                         *)
(* Python strings whose characters matter (raw panel statuses, entity      *)
(* states carried by state-change events) are sequences of one-character   *)
(* strings, so that strip(), upper() and lower() are computed character by *)
(* character.  Python's None is the one-element sequence NoneVal, which no *)
(* character sequence equals.                                              *)
(***************************************************************************)
EXTENDS Integers, Sequences, FiniteSets, TLC

(***************************************************************************)
(* Bounds of the model.                                                    *)
(***************************************************************************)
\* longest run of whitespace put on either side of a raw status
MaxPad == 2
\* largest configured event hour offset
MaxOffset == 1

(***************************************************************************)
(* Strings.                                                                *)
(***************************************************************************)
NoneVal == <<"<None>">>

LowerAlpha == <<"a", "b", "c", "d", "e", "f", "g", "h", "i", "j", "k", "l", "m",
                "n", "o", "p", "q", "r", "s", "t", "u", "v", "w", "x", "y", "z">>
UpperAlpha == <<"A", "B", "C", "D", "E", "F", "G", "H", "I", "J", "K", "L", "M",
                "N", "O", "P", "Q", "R", "S", "T", "U", "V", "W", "X", "Y", "Z">>

\* the characters str.strip() removes
Whitespace == {" ", "\t", "\n", "\r"}

UpperChar(c) ==
    IF \E i \in DOMAIN LowerAlpha : LowerAlpha[i] = c
    THEN UpperAlpha[CHOOSE i \in DOMAIN LowerAlpha : LowerAlpha[i] = c]
    ELSE c

LowerChar(c) ==
    IF \E i \in DOMAIN UpperAlpha : UpperAlpha[i] = c
    THEN LowerAlpha[CHOOSE i \in DOMAIN UpperAlpha : UpperAlpha[i] = c]
    ELSE c

\* str.upper()
Upper(s) == [i \in DOMAIN s |-> UpperChar(s[i])]

\* str.lower()
Lower(s) == [i \in DOMAIN s |-> LowerChar(s[i])]

RECURSIVE LStrip(_)
LStrip(s) ==
    IF s = <<>> THEN s
    ELSE IF Head(s) \in Whitespace THEN LStrip(Tail(s)) ELSE s

RECURSIVE RStrip(_)
RStrip(s) ==
    IF s = <<>> THEN s
    ELSE IF s[Len(s)] \in Whitespace THEN RStrip(SubSeq(s, 1, Len(s) - 1)) ELSE s

\* a strip() that forgets the trailing whitespace
StripLeftOnly(s) == LStrip(s)

\* str.strip()
Strip(s) == RStrip(LStrip(s))

(***************************************************************************)
(* Canonical alarm states (homeassistant.const / AlarmControlPanelState).  *)
(***************************************************************************)
STATE_UNKNOWN == <<"u", "n", "k", "n", "o", "w", "n">>
STATE_ALARM_DISARMED == <<"d", "i", "s", "a", "r", "m", "e", "d">>
STATE_ALARM_ARMED_HOME == <<"a", "r", "m", "e", "d", "_", "h", "o", "m", "e">>
STATE_ALARM_ARMED_AWAY == <<"a", "r", "m", "e", "d", "_", "a", "w", "a", "y">>
STATE_ALARM_TRIGGERED == <<"t", "r", "i", "g", "g", "e", "r", "e", "d">>
STATE_ALARM_PENDING == <<"p", "e", "n", "d", "i", "n", "g">>
STATE_ALARM_ARMING == <<"a", "r", "m", "i", "n", "g">>

\* the table of update()
mapping ==
    <<"A", "W", "A", "Y">> :> STATE_ALARM_ARMED_AWAY @@
    <<"A", "R", "M", "E", "D", "_", "A", "W", "A", "Y">> :> STATE_ALARM_ARMED_AWAY @@
    <<"A", "R", "M">> :> STATE_ALARM_ARMED_AWAY @@
    <<"A", "R", "M", "_", "A", "W", "A", "Y">> :> STATE_ALARM_ARMED_AWAY @@
    <<"H", "O", "M", "E">> :> STATE_ALARM_ARMED_HOME @@
    <<"S", "T", "A", "Y">> :> STATE_ALARM_ARMED_HOME @@
    <<"A", "R", "M", "E", "D", "_", "H", "O", "M", "E">> :> STATE_ALARM_ARMED_HOME @@
    <<"A", "R", "M", "_", "H", "O", "M", "E">> :> STATE_ALARM_ARMED_HOME @@
    <<"D", "I", "S", "A", "R", "M">> :> STATE_ALARM_DISARMED @@
    <<"D", "I", "S", "A", "R", "M", "E", "D">> :> STATE_ALARM_DISARMED @@
    <<"R", "E", "A", "D", "Y">> :> STATE_ALARM_DISARMED @@
    <<"I", "D", "L", "E">> :> STATE_ALARM_DISARMED @@
    <<"A", "R", "M", "I", "N", "G">> :> STATE_ALARM_ARMING @@
    <<"E", "X", "I", "T", "D", "E", "L", "A", "Y">> :> STATE_ALARM_ARMING @@
    <<"E", "N", "T", "R", "Y", "D", "E", "L", "A", "Y">> :> STATE_ALARM_PENDING @@
    <<"P", "E", "N", "D", "I", "N", "G">> :> STATE_ALARM_PENDING @@
    <<"A", "L", "A", "R", "M">> :> STATE_ALARM_TRIGGERED @@
    <<"T", "R", "I", "G", "G", "E", "R", "E", "D">> :> STATE_ALARM_TRIGGERED

\* mapping.get(status, STATE_UNKNOWN)
MappingGet(status) ==
    IF status \in DOMAIN mapping THEN mapping[status] ELSE STATE_UNKNOWN

\* the canonical state of a raw status: Unknown for None, else the table's
\* entry for the status stripped and upper-cased
Normalize(r) ==
    IF r = NoneVal THEN STATE_UNKNOWN ELSE MappingGet(Upper(Strip(r)))

(***************************************************************************)
(* Inputs.                                                                 *)
(***************************************************************************)
\* Python's None where the value is an atomic string (a code)
None == "<None>"

\* raw statuses the panel reports: None, a padded lower-case synonym, a
\* mixed-case synonym, a string the table does not hold
PanelRaws ==
    { NoneVal,
      <<" ", "a", "w", "a", "y", " ">>,
      <<"D", "i", "s", "a", "r", "m">>,
      <<"f", "o", "o", "b", "a", "r">> }

\* the panel's condition when the hub asks: its raw status and its ready flag
PanelSnapshots == [state : PanelRaws, ready : BOOLEAN]

\* the panel's most recent arm/disarm event when the hub asks
PanelEvents == {[user |-> "alice", hour |-> 7], [user |-> "bob", hour |-> 22]}

\* CONF_USER_CODE
UserCodes == {"1234"}

\* the code argument of a command: absent, the configured one, another one
CodeArgs == {None, "1234", "0000"}

ALARM_ENTITY_ID == "alarm_control_panel.visonic_alarm"

EntityIds == {ALARM_ENTITY_ID, "sensor.door"}

\* event.data["old_state"]: None or a state object, given by its state string
OldStates == {NoneVal, STATE_ALARM_DISARMED}

\* event.data["new_state"]: None or a state object, given by its state string
NewStates ==
    { NoneVal, <<>>, STATE_UNKNOWN, STATE_ALARM_DISARMED, STATE_ALARM_TRIGGERED,
      STATE_ALARM_ARMED_HOME,
      <<"A", "R", "M", "E", "D", "_", "A", "W", "A", "Y">> }

StateChangedEvents == [entity_id : EntityIds, old_state : OldStates, new_state : NewStates]

(***************************************************************************)
(* State.                                                                  *)
(***************************************************************************)
VARIABLES
    hub,                \* hub.alarm.state and hub.alarm.ready, as of the last hub.update()
    attr_state,         \* self._attr_state
    raw,                \* update()'s local raw, as last read (NoRead before the first update)
    user_code,          \* self._code
    no_pin_required,    \* self._no_pin_required
    event_hour_offset,  \* self._event_hour_offset
    changed_by,         \* self._changed_by: <<>> is None, <<u>> is user u
    changed_timestamp,  \* self._changed_timestamp: <<>> is None, <<h>> is hour h
    last,               \* the most recent handler invocation and what it did
    thr,                \* the executor threads of the overlapping runs
    n_in                \* normalizer run: the raw status given and the state expected

vars == <<hub, attr_state, raw, user_code, no_pin_required, event_hour_offset,
          changed_by, changed_timestamp, last, thr, n_in>>

config == <<user_code, no_pin_required, event_hour_offset>>

NoRead == <<"<no read>">>

NoNotice == [message |-> "", title |-> ""]

NoEvent == [entity_id |-> "", old_state |-> NoneVal, new_state |-> NoneVal]

\* what an invocation could touch, as it is now
Fields ==
    [state |-> attr_state, raw |-> raw, by |-> changed_by, ts |-> changed_timestamp]

\* what an invocation leaves in last: its arguments, the ready flag and the
\* fields as it found them, the calls it made in order, the notice it created,
\* the event the client returned to it (<<>>: none asked)
Record(op, code, event, trace, notice, got) ==
    [op |-> op, code |-> code, ready |-> hub.ready, event |-> event, trace |-> trace,
     notice |-> notice, got |-> got, pre |-> Fields]

Threads == {"t1", "t2"}

ThreadIdle == [t \in Threads |-> [pc |-> "idle", raw |-> NoRead]]

NoInput == [raw |-> NoneVal, expect |-> STATE_UNKNOWN, how |-> "none"]

(***************************************************************************)
(* The hub (the package's __init__, not in the source tree) and the panel. *)
(***************************************************************************)
\* hub.update(): the snapshot becomes the panel's condition p
HubUpdate(p) == p

\* hub.alarm.get_last_event(timestamp_hour_offset=offset), the panel's last
\* event being e
GetLastEvent(e, offset) == [user |-> e.user, timestamp |-> e.hour + offset]

(***************************************************************************)
(* VisonicAlarm.__init__ after setup_platform's hub.update().              *)
(***************************************************************************)
\* self._attr_state = STATE_UNKNOWN
InitialState == STATE_UNKNOWN

Init ==
    /\ \E p \in PanelSnapshots : hub = HubUpdate(p)
    /\ attr_state = InitialState
    /\ raw = NoRead
    /\ user_code \in UserCodes
    /\ no_pin_required \in BOOLEAN
    /\ event_hour_offset \in 0..MaxOffset
    /\ changed_by = <<>>
    /\ changed_timestamp = <<>>
    /\ last = Record("__init__", None, NoEvent, <<>>, NoNotice, <<>>)
    /\ thr = ThreadIdle
    /\ n_in = NoInput

(***************************************************************************)
(* VisonicAlarm.update and the commands.  What a handler does is a value:  *)
(* the snapshot, update()'s raw and the canonical state it leaves, the     *)
(* calls it makes in order, the notice it creates.  p is the panel's       *)
(* condition when the handler's hub.update() runs.                         *)
(***************************************************************************)
\* an update() that returns on a None status without storing a state
storeKeepOnNone(r) == IF r = NoneVal THEN attr_state ELSE Normalize(r)

\* what update() stores in self._attr_state for the raw status r it read
store(r) == Normalize(r)

\* update(): hub.update(), raw = hub.alarm.state, self._attr_state = ...
update(p) ==
    LET h == HubUpdate(p)
    IN  [hub |-> h, raw |-> h.state, state |-> store(h.state)]

ClientCommands == {"hub.alarm.disarm", "hub.alarm.arm_home", "hub.alarm.arm_away"}

Commands == {"alarm_disarm", "alarm_arm_home", "alarm_arm_away"}

WrongDisarmCode ==
    [message |-> "You entered the wrong disarm code.", title |-> "Disarm Failed"]

WrongArmCode(title) == [message |-> "You entered the wrong arm code.", title |-> title]

NotReady(title) ==
    [message |-> "The alarm system is not ready. Doors/windows open?", title |-> title]

\* a code check that ignores the no-PIN flag
CodeRejectedAlways(code) == code # user_code

\* a code check that lets an absent code through
CodeRejectedUnlessAbsent(code) == ~no_pin_required /\ code # None /\ code # user_code

\* not self._no_pin_required and code != self._code
CodeRejected(code) == ~no_pin_required /\ code # user_code

\* a readiness gate that lets every arm command through
ReadyAlways == TRUE

\* hub.alarm.ready
Ready == hub.ready

\* a command that refreshes before it calls the client
CommandTraceRefreshFirst(call) == <<"update", "sleep", call>>

\* the client command, sleep(1), self.update()
CommandTrace(call) == <<call, "sleep", "update">>

\* a failing command that refreshes all the same
FailRefreshes(notice) ==
    update([state |-> NoneVal, ready |-> hub.ready])
        @@ [trace |-> <<"pn.create", "update">>, notice |-> notice]

\* pn.create(...) and return
Fail(notice) ==
    [hub |-> hub, raw |-> raw, state |-> attr_state,
     trace |-> <<"pn.create">>, notice |-> notice]

Proceed(call, p) == update(p) @@ [trace |-> CommandTrace(call), notice |-> NoNotice]

alarm_disarm(code, p) ==
    IF CodeRejected(code)
    THEN Fail(WrongDisarmCode)
    ELSE Proceed("hub.alarm.disarm", p)

alarm_arm_home(code, p) ==
    IF CodeRejected(code)
    THEN Fail(WrongArmCode("Arm Failed"))
    ELSE IF Ready
         THEN Proceed("hub.alarm.arm_home", p)
         ELSE Fail(NotReady("Arm Failed"))

alarm_arm_away(code, p) ==
    IF CodeRejected(code)
    THEN Fail(WrongArmCode("Unable to Arm"))
    ELSE IF Ready
         THEN Proceed("hub.alarm.arm_away", p)
         ELSE Fail(NotReady("Unable to Arm"))

\* one invocation of handler op taking effect
Do(op, code, eff) ==
    /\ hub' = eff.hub
    /\ raw' = eff.raw
    /\ attr_state' = eff.state
    /\ last' = Record(op, code, NoEvent, eff.trace, eff.notice, <<>>)
    /\ UNCHANGED <<config, changed_by, changed_timestamp, thr, n_in>>

\* the scheduler's call of update(), every SCAN_INTERVAL
Poll ==
    \E p \in PanelSnapshots :
        Do("update", None, update(p) @@ [trace |-> <<"hub.update">>, notice |-> NoNotice])

AlarmDisarm ==
    \E code \in CodeArgs, p \in PanelSnapshots :
        Do("alarm_disarm", code, alarm_disarm(code, p))

AlarmArmHome ==
    \E code \in CodeArgs, p \in PanelSnapshots :
        Do("alarm_arm_home", code, alarm_arm_home(code, p))

AlarmArmAway ==
    \E code \in CodeArgs, p \in PanelSnapshots :
        Do("alarm_arm_away", code, alarm_arm_away(code, p))

(***************************************************************************)
(* Last-change tracking.                                                   *)
(***************************************************************************)
TrackedStates == {STATE_ALARM_ARMED_HOME, STATE_ALARM_ARMED_AWAY, STATE_ALARM_DISARMED}

\* a listener that tracks every entity's changes
TracksAnyEntity(ev) ==
    /\ ~(ev.new_state = NoneVal \/ ev.new_state \in {STATE_UNKNOWN, <<>>})
    /\ ev.old_state # NoneVal
    /\ ev.old_state # ev.new_state
    /\ Lower(ev.new_state) \in TrackedStates

\* the conditions under which arm_event_listener stores the last event
Tracks(ev) ==
    /\ ~(ev.new_state = NoneVal \/ ev.new_state \in {STATE_UNKNOWN, <<>>})
    /\ ev.entity_id = ALARM_ENTITY_ID
    /\ ev.old_state # NoneVal
    /\ ev.old_state # ev.new_state
    /\ Lower(ev.new_state) \in TrackedStates

update_last_event(user, timestamp) ==
    /\ changed_by' = <<user>>
    /\ changed_timestamp' = <<timestamp>>

arm_event_listener(ev) ==
    /\ IF Tracks(ev)
       THEN \E e \in PanelEvents :
              LET last_event == GetLastEvent(e, event_hour_offset)
              IN  /\ update_last_event(last_event.user, last_event.timestamp)
                  /\ last' = Record("arm_event_listener", None, ev,
                                    <<"hub.alarm.get_last_event">>, NoNotice,
                                    <<last_event>>)
       ELSE /\ UNCHANGED <<changed_by, changed_timestamp>>
            /\ last' = Record("arm_event_listener", None, ev, <<>>, NoNotice, <<>>)
    /\ UNCHANGED <<hub, attr_state, raw, config, thr, n_in>>

\* the bus delivers a state-change event
StateChanged == \E ev \in StateChangedEvents : arm_event_listener(ev)

(***************************************************************************)
(* The entity under the host's one-at-a-time invocation discipline.        *)
(***************************************************************************)
Next ==
    \/ Poll
    \/ AlarmDisarm
    \/ AlarmArmHome
    \/ AlarmArmAway
    \/ StateChanged

Spec == Init /\ [][Next]_vars

(***************************************************************************)
(* Overlapping invocations: the handlers run on executor threads with no   *)
(* lock, so the steps of update() (the client refresh, the read of the raw *)
(* status, the write of the canonical state) interleave.  A thread is at   *)
(* "idle", "notice" (about to create its failure notice and return),       *)
(* "sleep" (its client command sent), "refresh", "read" or "write".        *)
(***************************************************************************)
Handler(op, code, p) ==
    CASE op = "alarm_disarm" -> alarm_disarm(code, p)
      [] op = "alarm_arm_home" -> alarm_arm_home(code, p)
      [] op = "alarm_arm_away" -> alarm_arm_away(code, p)

Goto(t, pc) == thr' = [thr EXCEPT ![t].pc = pc]

\* the scheduler calls update() on thread t
TPoll(t) ==
    /\ thr[t].pc = "idle"
    /\ Goto(t, "refresh")
    /\ UNCHANGED <<hub, attr_state, raw, config, changed_by, changed_timestamp, last, n_in>>

\* a command is called on thread t: its gates, then its client command
TCommand(t) ==
    /\ thr[t].pc = "idle"
    /\ \E op \in Commands, code \in CodeArgs :
         IF Handler(op, code, hub).notice # NoNotice
         THEN Goto(t, "notice")
         ELSE Goto(t, "sleep")
    /\ UNCHANGED <<hub, attr_state, raw, config, changed_by, changed_timestamp, last, n_in>>

\* pn.create(...) and return
TNotice(t) ==
    /\ thr[t].pc = "notice"
    /\ Goto(t, "idle")
    /\ UNCHANGED <<hub, attr_state, raw, config, changed_by, changed_timestamp, last, n_in>>

\* sleep(1) is over: self.update() begins
TSleep(t) ==
    /\ thr[t].pc = "sleep"
    /\ Goto(t, "refresh")
    /\ UNCHANGED <<hub, attr_state, raw, config, changed_by, changed_timestamp, last, n_in>>

\* hub.update()
TRefresh(t) ==
    /\ thr[t].pc = "refresh"
    /\ \E p \in PanelSnapshots : hub' = HubUpdate(p)
    /\ Goto(t, "read")
    /\ UNCHANGED <<attr_state, raw, config, changed_by, changed_timestamp, last, n_in>>

\* raw = hub.alarm.state
TRead(t) ==
    /\ thr[t].pc = "read"
    /\ thr' = [thr EXCEPT ![t] = [pc |-> "write", raw |-> hub.state]]
    /\ UNCHANGED <<hub, attr_state, raw, config, changed_by, changed_timestamp, last, n_in>>

\* self._attr_state = ... and return
TWrite(t) ==
    /\ thr[t].pc = "write"
    /\ attr_state' = store(thr[t].raw)
    /\ Goto(t, "idle")
    /\ UNCHANGED <<hub, raw, config, changed_by, changed_timestamp, last, n_in>>

NextOverlap ==
    \E t \in Threads :
        \/ TPoll(t)
        \/ TCommand(t)
        \/ TNotice(t)
        \/ TSleep(t)
        \/ TRefresh(t)
        \/ TRead(t)
        \/ TWrite(t)

SpecOverlap == Init /\ [][NextOverlap]_vars

(***************************************************************************)
(* The normalizer alone: one update() on a raw status built from a table   *)
(* key (re-cased, padded with whitespace) or built to lie outside the      *)
(* table.                                                                  *)
(***************************************************************************)
PadChars == {" ", "\n"}

Pads == UNION {[1..n -> PadChars] : n \in 0..MaxPad}

\* a key as the panel may spell it
Styled(k, style) ==
    CASE style = "upper" -> k
      [] style = "lower" -> Lower(k)
      [] style = "mixed" -> [i \in DOMAIN k |-> IF i % 2 = 1 THEN LowerChar(k[i]) ELSE k[i]]

InTable ==
    {[raw |-> l \o Styled(k, st) \o r, expect |-> mapping[k], how |-> "key"] :
        k \in DOMAIN mapping, st \in {"upper", "lower", "mixed"}, l \in Pads, r \in Pads}

\* no key: a key with a space inside, with a letter more, with a letter less
OutsideCores ==
    {<<>>, <<"f", "o", "o", "b", "a", "r">>}
        \cup {<<Head(k), " ">> \o Tail(k) : k \in DOMAIN mapping}
        \cup {k \o <<"X">> : k \in DOMAIN mapping}
        \cup {Tail(k) : k \in DOMAIN mapping}

OutsideTable ==
    {[raw |-> l \o Lower(c) \o r, expect |-> STATE_UNKNOWN, how |-> "outside"] :
        c \in OutsideCores, l \in Pads, r \in Pads}
        \cup {NoInput}

InitNormalizer ==
    /\ n_in \in InTable \cup OutsideTable
    /\ hub = [state |-> NoneVal, ready |-> TRUE]
    /\ attr_state = InitialState
    /\ raw = NoRead
    /\ user_code \in UserCodes
    /\ no_pin_required = FALSE
    /\ event_hour_offset = 0
    /\ changed_by = <<>>
    /\ changed_timestamp = <<>>
    /\ last = Record("__init__", None, NoEvent, <<>>, NoNotice, <<>>)
    /\ thr = ThreadIdle

\* update(), the panel reporting the raw status given
NormalizerRun ==
    /\ last.op = "__init__"
    /\ Do("update", None,
          update([state |-> n_in.raw, ready |-> TRUE])
              @@ [trace |-> <<"hub.update">>, notice |-> NoNotice])

SpecNormalizer == InitNormalizer /\ [][NormalizerRun]_vars

(***************************************************************************)
(* What the most recent invocation did.                                    *)
(***************************************************************************)
Count(trace, call) == Cardinality({i \in DOMAIN trace : trace[i] = call})

\* the client commands the invocation made, in order
ClientCalls(trace) == SelectSeq(trace, LAMBDA c : c \in ClientCommands)

CallOf(op) ==
    CASE op = "alarm_disarm" -> "hub.alarm.disarm"
      [] op = "alarm_arm_home" -> "hub.alarm.arm_home"
      [] op = "alarm_arm_away" -> "hub.alarm.arm_away"

TitleOf(op) ==
    CASE op = "alarm_disarm" -> "Disarm Failed"
      [] op = "alarm_arm_home" -> "Arm Failed"
      [] op = "alarm_arm_away" -> "Unable to Arm"

WrongCodeMessages ==
    {"You entered the wrong disarm code.", "You entered the wrong arm code."}

NotReadyMessage == "The alarm system is not ready. Doors/windows open?"

\* the invocation's code fails the check of a panel that requires a PIN
LastWrongCode == ~no_pin_required /\ last.code # user_code

ArmCommands == {"alarm_arm_home", "alarm_arm_away"}

(***************************************************************************)
(* Claims.                                                                 *)
(***************************************************************************)

\* C1: a Disarm whose code differs from the configured code, on a panel that
\* requires a PIN, makes no client call (so never disarm()) and creates the
\* wrong-disarm-code notice, whatever the canonical state and the ready flag.
C1_WrongCodeDisarmRefused ==
    (last.op = "alarm_disarm" /\ LastWrongCode)
        => /\ ClientCalls(last.trace) = <<>>
           /\ Count(last.trace, "pn.create") = 1
           /\ last.notice = WrongDisarmCode

\* a wrong-code Disarm of a ready panel that is armed away
C1_Witness ==
    /\ last.op = "alarm_disarm" /\ LastWrongCode
    /\ last.ready /\ last.pre.state = STATE_ALARM_ARMED_AWAY
    /\ last.code = "0000"

\* C2: an ArmHome or ArmAway whose code passes the check while the ready flag
\* is false makes no client call and creates the not-ready notice, whose
\* message is not the wrong-code message.
C2_NotReadyArmRefused ==
    (last.op \in ArmCommands /\ ~LastWrongCode /\ ~last.ready)
        => /\ ClientCalls(last.trace) = <<>>
           /\ Count(last.trace, "pn.create") = 1
           /\ last.notice = [message |-> NotReadyMessage, title |-> TitleOf(last.op)]
           /\ last.notice.message \notin WrongCodeMessages

\* an ArmAway with the configured code, PIN required, panel not ready
C2_Witness ==
    /\ last.op = "alarm_arm_away" /\ ~no_pin_required /\ last.code = user_code
    /\ ~last.ready

\* C3: a command that passes its gates calls its own client command once and
\* no other, then sleeps, then refreshes once; the refresh leaves the state
\* mapped from the raw status it read.
C3_PassingCommandCallsOnceThenRefreshes ==
    (/\ last.op \in Commands
     /\ ~LastWrongCode
     /\ (last.op \in ArmCommands => last.ready))
        => /\ ClientCalls(last.trace) = <<CallOf(last.op)>>
           /\ Count(last.trace, "update") = 1
           /\ Count(last.trace, "pn.create") = 0
           /\ last.trace = <<CallOf(last.op), "sleep", "update">>
           /\ raw = hub.state
           /\ attr_state = Normalize(raw)

\* a Disarm with the configured code while the panel is not ready
C3_Witness ==
    /\ last.op = "alarm_disarm" /\ ~no_pin_required /\ last.code = user_code
    /\ ~last.ready
    /\ attr_state = STATE_ALARM_DISARMED

\* C4: with the no-PIN flag set, what each command does from the present
\* state is the same for any two code arguments, the panel's condition at
\* the refresh being the same, and no command creates a wrong-code notice.
C4_NoPinCodeIrrelevant ==
    no_pin_required
        => /\ \A c1, c2 \in CodeArgs, p \in PanelSnapshots :
                /\ alarm_disarm(c1, p) = alarm_disarm(c2, p)
                /\ alarm_arm_home(c1, p) = alarm_arm_home(c2, p)
                /\ alarm_arm_away(c1, p) = alarm_arm_away(c2, p)
           /\ \A c \in CodeArgs, p \in PanelSnapshots :
                /\ alarm_disarm(c, p).notice.message \notin WrongCodeMessages
                /\ alarm_arm_home(c, p).notice.message \notin WrongCodeMessages
                /\ alarm_arm_away(c, p).notice.message \notin WrongCodeMessages
           /\ (last.op \in Commands => last.notice.message \notin WrongCodeMessages)

\* an ArmHome that went through with a code other than the configured one
C4_Witness ==
    /\ no_pin_required
    /\ last.op = "alarm_arm_home" /\ last.code = "0000"
    /\ last.trace = <<"hub.alarm.arm_home", "sleep", "update">>

\* C5 as stated: with the no-PIN flag set every command calls its client
\* command.
C5_Original ==
    (no_pin_required /\ last.op \in Commands)
        => Count(last.trace, CallOf(last.op)) = 1

\* C5 as amended: with the no-PIN flag set, Disarm always calls disarm(), and
\* ArmHome and ArmAway call their client command exactly when the ready flag
\* is true, creating the not-ready notice otherwise.
C5_NoPinProceedsUpToReadiness ==
    (no_pin_required /\ last.op \in Commands)
        => /\ last.op = "alarm_disarm" => ClientCalls(last.trace) = <<"hub.alarm.disarm">>
           /\ last.op \in ArmCommands =>
                IF last.ready
                THEN ClientCalls(last.trace) = <<CallOf(last.op)>>
                ELSE /\ ClientCalls(last.trace) = <<>>
                     /\ last.notice.message = NotReadyMessage

\* an ArmHome without PIN that stops at a panel that is not ready
C5_Witness ==
    /\ no_pin_required /\ last.op = "alarm_arm_home" /\ ~last.ready
    /\ last.code = None
    /\ last.notice.message = NotReadyMessage

\* C7 as stated: the canonical state is always the mapping of the client's
\* latest raw status.
C7_Original == attr_state = Normalize(hub.state)

\* C7 as amended: until the first update() the canonical state is Unknown,
\* whatever raw status the client holds; from then on it is the mapping of
\* the client's latest raw status, which is the one update() read last.
C7_StateFollowsLastRead ==
    IF raw = NoRead
    THEN attr_state = STATE_UNKNOWN
    ELSE raw = hub.state /\ attr_state = Normalize(hub.state)

\* an update() has read None after the state had been armed away
C7_Witness ==
    /\ raw = NoneVal /\ last.pre.state = STATE_ALARM_ARMED_AWAY
    /\ attr_state = STATE_UNKNOWN

\* the alarm entity's state changed, by exact comparison, to a tracked state
ChangedToTrackedExactly(ev) ==
    /\ ev.entity_id = ALARM_ENTITY_ID
    /\ ev.new_state # NoneVal
    /\ ev.old_state # NoneVal
    /\ ev.old_state # ev.new_state
    /\ ev.new_state \in {STATE_ALARM_DISARMED, STATE_ALARM_ARMED_HOME, STATE_ALARM_ARMED_AWAY}

\* the same, the new state compared in lower case
ChangedToTrackedAnyCase(ev) ==
    /\ ev.entity_id = ALARM_ENTITY_ID
    /\ ev.new_state # NoneVal
    /\ ev.old_state # NoneVal
    /\ ev.old_state # ev.new_state
    /\ Lower(ev.new_state) \in {STATE_ALARM_DISARMED, STATE_ALARM_ARMED_HOME, STATE_ALARM_ARMED_AWAY}

\* the listener left state and raw alone, made no client command, and stored
\* the client's last event if stores, nothing otherwise
ListenerDid(stores) ==
    /\ attr_state = last.pre.state
    /\ raw = last.pre.raw
    /\ ClientCalls(last.trace) = <<>>
    /\ IF stores
       THEN /\ Len(last.got) = 1
            /\ changed_by = <<last.got[1].user>>
            /\ changed_timestamp = <<last.got[1].timestamp>>
       ELSE /\ last.got = <<>>
            /\ changed_by = last.pre.by
            /\ changed_timestamp = last.pre.ts

\* C8 as stated: the listener stores the client's last event exactly for an
\* event of the alarm entity whose old state is present and differs from the
\* new state and whose new state is disarmed, armed_home or armed_away.
C8_Original ==
    last.op = "arm_event_listener" => ListenerDid(ChangedToTrackedExactly(last.event))

\* C8 as amended: the new state is compared in lower case, so ARMED_AWAY
\* counts as armed_away.
C8_ListenerOnlyRecords ==
    last.op = "arm_event_listener" => ListenerDid(ChangedToTrackedAnyCase(last.event))

\* the listener stored bob's event over alice's after a change to armed_home
C8_Witness ==
    /\ last.op = "arm_event_listener"
    /\ last.event.new_state = STATE_ALARM_ARMED_HOME
    /\ last.pre.by = <<"alice">>
    /\ changed_by = <<"bob">>

\* C6: update() on a raw status that is a table key, in any case and padded
\* with whitespace, stores the state the table gives the key; on None and on
\* a string that is no key once stripped and upper-cased it stores Unknown.
\* The spec's own examples are among the cases.
C6_NormalizerTotal ==
    last.op = "update"
        => /\ raw = n_in.raw
           /\ attr_state = n_in.expect
           /\ (raw = <<" ", "a", "w", "a", "y", " ">> => attr_state = STATE_ALARM_ARMED_AWAY)
           /\ (raw = <<"E", "X", "I", "T", "D", "E", "L", "A", "Y">>
                    => attr_state = STATE_ALARM_ARMING)
           /\ (raw = <<"f", "o", "o", "b", "a", "r">> => attr_state = STATE_UNKNOWN)
           /\ (raw = NoneVal => attr_state = STATE_UNKNOWN)

\* update() has stored armed_home for a padded, mixed-case "sTaY"
C6_Witness ==
    /\ last.op = "update"
    /\ raw = <<" ", "s", "T", "a", "Y", "\n", " ">>
    /\ attr_state = STATE_ALARM_ARMED_HOME

\* C9: a command that fails (wrong code with PIN required, or arming a panel
\* that is not ready) does one thing, create one notice: no client command,
\* no refresh, and state, raw and last-change record as before.
C9_FailedCommandLeavesEntity ==
    (/\ last.op \in Commands
     /\ \/ LastWrongCode
        \/ last.op \in ArmCommands /\ ~last.ready)
        => /\ last.trace = <<"pn.create">>
           /\ last.notice # NoNotice
           /\ Fields = last.pre

\* a wrong-code ArmHome after the listener had stored a change, state disarmed
C9_Witness ==
    /\ last.op = "alarm_arm_home" /\ LastWrongCode
    /\ attr_state = STATE_ALARM_DISARMED
    /\ changed_by = <<"alice">>

Idle == \A t \in Threads : thr[t].pc = "idle"

\* C10 as stated: once the overlapping invocations have completed, the
\* canonical state is the mapping of the client's latest raw status.
C10_Original ==
    (Idle /\ \E t \in Threads : thr[t].raw # NoRead)
        => attr_state = Normalize(hub.state)

\* C10 as amended: once the overlapping invocations have completed, the
\* canonical state is the mapping of the raw status read by one of them, the
\* one that wrote last, which need not be the client's latest raw status;
\* it is Unknown as long as none has run update().
C10_StateFromSomeRead ==
    Idle =>
        IF \A t \in Threads : thr[t].raw = NoRead
        THEN attr_state = STATE_UNKNOWN
        ELSE \E t \in Threads : thr[t].raw # NoRead /\ attr_state = Normalize(thr[t].raw)

\* both threads are done, t1's stale read has overwritten the state t2 wrote
\* from the client's latest raw status
C10_Witness ==
    /\ Idle
    /\ thr["t1"].raw = <<"D", "i", "s", "a", "r", "m">>
    /\ thr["t2"].raw = <<" ", "a", "w", "a", "y", " ">>
    /\ hub.state = thr["t2"].raw
    /\ attr_state = STATE_ALARM_DISARMED

====
